---- MODULE Spec2Model ----
(***************************************************************************)
(* Model of matamazon.py: the MatamazonSystem store (customers, suppliers, *)
(* products, orders, next order id) and its operations.                    *)
(*                                                                         *)
(* A Python dict is modelled as the sequence of its values in insertion    *)
(* order (every stored record carries its key in the field id).            *)
(* A Python float is modelled as a record [k, v]: k = "fin" with integer   *)
(* value v, k = "inf" (float('inf')) or k = "nan".  The command            *)
(* interpreter builds every price with float(), so prices are floats.      *)
(* A text (name, city, address) is the sequence of its characters.         *)
(* A snapshot file is the sequence of its lines; a line is a record        *)
(* [head, args]: the text before the parenthesis and the argument tokens.  *)
(* The variable snapshot holds the file given with -s (no lines when the   *)
(* option is absent).  The variable output holds what the script has      *)
(* written.                                                                *)
(***************************************************************************)
EXTENDS Integers, Sequences, FiniteSets, TLC

VARIABLES customers, suppliers, products, orders, next_order_id, last, placed,
          snapshot, output

vars == <<customers, suppliers, products, orders, next_order_id, last, placed,
          snapshot, output>>

(* ------------------------------ bounds -------------------------------- *)
MaxCid == 1
MaxSid == 1
MaxPid == 0
MaxQty == 2
MaxOrders == 2
MaxLines == 3
MaxSearchPid == 2
MaxExportOrders == 3

(* --------------------------- program constants ------------------------ *)
ZERO == 0
ONE == 1
SUCCESS_ORDER_MSG == "The order has been accepted in the system"
NO_PRODUCT_MSG == "The product does not exist in the system"
NOT_ENOUGH_STOCK_MSG == "The quantity requested for this product is greater than the quantity in stock"
ERROR_LINE == "The matamazon script has encountered an error"
InvalidIdException == "InvalidIdException"
InvalidPriceException == "InvalidPriceException"
SyntaxError == "SyntaxError"
NameError == "NameError"
TypeError == "TypeError"
ValueError == "ValueError"
OverflowError == "OverflowError"
None == "None"

(* ------------------------------- floats ------------------------------- *)
Fin(n) == [k |-> "fin", v |-> n]
Inf == [k |-> "inf", v |-> 0]
NaN == [k |-> "nan", v |-> 0]

\* value >= ZERO on a float: false for nan and for negative numbers
FloatGeZero(x) == x.k = "inf" \/ (x.k = "fin" /\ x.v >= ZERO)

\* a <= b on floats (every comparison with nan is false)
FloatLe(a, b) ==
    /\ a.k # "nan" /\ b.k # "nan"
    /\ \/ b.k = "inf"
       \/ a.k = "fin" /\ b.k = "fin" /\ a.v <= b.v

\* The largest int that converts to a float is about 1.8e308
\* (sys.float_info.max); FloatMaxInt stands for it on the scale of the
\* model's integers.
FloatMaxInt == 1000000

\* float * int: the int is converted to float first, which raises
\* OverflowError for an int beyond the float range; inf * 0 is nan.
\* Result: [exc, val].
FloatMulInt(x, n) ==
    IF n > FloatMaxInt THEN [exc |-> OverflowError, val |-> NaN]
    ELSE IF x.k = "nan" THEN [exc |-> None, val |-> NaN]
    ELSE IF x.k = "inf" THEN [exc |-> None, val |-> IF n = 0 THEN NaN ELSE Inf]
    ELSE [exc |-> None, val |-> Fin(x.v * n)]

(* ------------------------------ validators ---------------------------- *)
_is_valid_non_negative_int(value) == value >= ZERO

_is_valid_non_negative_real(value) == FloatGeZero(value)

(* ------------------------- dict as ordered sequence ------------------- *)
Keys(d) == {d[i].id : i \in DOMAIN d}

Values(d) == {d[i] : i \in DOMAIN d}

Get(d, key) == d[CHOOSE i \in DOMAIN d : d[i].id = key]

Put(d, rec) == Append(d, rec)

Del(d, key) == SelectSeq(d, LAMBDA r : r.id # key)

(* ------------------------------- texts -------------------------------- *)
\* str.lower() on the characters the model uses
LowerChar(c) == IF c = "A" THEN "a" ELSE IF c = "B" THEN "b" ELSE c

lower(text) == [i \in DOMAIN text |-> LowerChar(text[i])]

\* q in text (substring test)
Contains(text, q) ==
    \E i \in 0..(Len(text) - Len(q)) : SubSeq(text, i + 1, i + Len(q)) = q

(* --------------------------- record constructors ---------------------- *)
\* Each constructor returns [exc, obj]: the exception it raises (None when
\* it succeeds) and the constructed record.
Customer(id, name, city, address) ==
    IF ~_is_valid_non_negative_int(id)
    THEN [exc |-> InvalidIdException, obj |-> <<>>]
    ELSE [exc |-> None,
          obj |-> [id |-> id, name |-> name, city |-> city, address |-> address]]

Supplier(id, name, city, address) ==
    IF ~_is_valid_non_negative_int(id)
    THEN [exc |-> InvalidIdException, obj |-> <<>>]
    ELSE [exc |-> None,
          obj |-> [id |-> id, name |-> name, city |-> city, address |-> address]]

Product(id, name, price, supplier_id, quantity) ==
    IF ~_is_valid_non_negative_int(id) THEN [exc |-> InvalidIdException, obj |-> <<>>]
    ELSE IF ~_is_valid_non_negative_int(supplier_id) THEN [exc |-> InvalidIdException, obj |-> <<>>]
    ELSE IF ~_is_valid_non_negative_int(quantity) THEN [exc |-> InvalidIdException, obj |-> <<>>]
    ELSE IF ~_is_valid_non_negative_real(price) THEN [exc |-> InvalidPriceException, obj |-> <<>>]
    ELSE [exc |-> None,
          obj |-> [id |-> id, name |-> name, price |-> price,
                   supplier_id |-> supplier_id, quantity |-> quantity]]

Order(id, customer_id, product_id, quantity, total_price) ==
    IF ~_is_valid_non_negative_int(id) THEN [exc |-> InvalidIdException, obj |-> <<>>]
    ELSE IF ~_is_valid_non_negative_int(customer_id) THEN [exc |-> InvalidIdException, obj |-> <<>>]
    ELSE IF ~_is_valid_non_negative_int(product_id) THEN [exc |-> InvalidIdException, obj |-> <<>>]
    ELSE IF ~_is_valid_non_negative_int(quantity) THEN [exc |-> InvalidIdException, obj |-> <<>>]
    ELSE IF ~_is_valid_non_negative_real(total_price) THEN [exc |-> InvalidPriceException, obj |-> <<>>]
    ELSE [exc |-> None,
          obj |-> [id |-> id, customer_id |-> customer_id, product_id |-> product_id,
                   quantity |-> quantity, total_price |-> total_price]]

(* ------------------------------ the store ----------------------------- *)
\* MatamazonSystem.__init__
MatamazonSystem ==
    [customers |-> <<>>, suppliers |-> <<>>, products |-> <<>>, orders |-> <<>>,
     next_order_id |-> ONE]

\* Every store operation is a function of the store s and its arguments to
\* [sys, res, ret]: the store after the call, what the call raised or which
\* message it returned (None for a plain return), and the integer it
\* returned (-1 when it returned none).
Raise(s, exc) == [sys |-> s, res |-> exc, ret |-> -1]

Return(s, res) == [sys |-> s, res |-> res, ret |-> -1]

register_entity(s, entity, is_customer) ==
    IF ~_is_valid_non_negative_int(entity.id) THEN Raise(s, InvalidIdException)
    ELSE IF is_customer
    THEN IF entity.id \in Keys(s.customers) THEN Raise(s, InvalidIdException)
         ELSE Return([s EXCEPT !.customers = Put(@, entity)], None)
    ELSE IF entity.id \in Keys(s.suppliers) THEN Raise(s, InvalidIdException)
         ELSE Return([s EXCEPT !.suppliers = Put(@, entity)], None)

\* existing.name = ...; existing.price = ...; existing.quantity = ...
UpdateExisting(existing, product) ==
    [existing EXCEPT !.name = product.name, !.price = product.price,
                     !.quantity = product.quantity]

\* mutant of add_or_update_product: an update with another supplier_id is
\* applied, supplier_id included
add_or_update_product_NoSupplierCheck(s, product) ==
    IF product.supplier_id \notin Keys(s.suppliers) THEN Raise(s, InvalidIdException)
    ELSE IF product.id \notin Keys(s.products)
    THEN Return([s EXCEPT !.products = Put(@, product)], None)
    ELSE Return([s EXCEPT !.products =
                    [i \in DOMAIN @ |-> IF @[i].id = product.id THEN product
                                        ELSE @[i]]], None)

add_or_update_product(s, product) ==
    IF product.supplier_id \notin Keys(s.suppliers) THEN Raise(s, InvalidIdException)
    ELSE IF product.id \notin Keys(s.products)
    THEN Return([s EXCEPT !.products = Put(@, product)], None)
    ELSE IF Get(s.products, product.id).supplier_id # product.supplier_id
    THEN Raise(s, InvalidIdException)
    ELSE Return([s EXCEPT !.products =
                    [i \in DOMAIN @ |-> IF @[i].id = product.id
                                        THEN UpdateExisting(@[i], product)
                                        ELSE @[i]]], None)

\* product.quantity -= quantity
TakeStock(s, product_id, quantity) ==
    [s EXCEPT !.products =
        [i \in DOMAIN @ |-> IF @[i].id = product_id
                            THEN [@[i] EXCEPT !.quantity = @ - quantity]
                            ELSE @[i]]]

\* mutant of StoreOrder: the next order id is taken from the number of
\* stored orders
StoreOrder_CountsStored(s, order) ==
    [s EXCEPT !.orders = Put(@, order), !.next_order_id = Len(s.orders) + 2]

\* mutant of StoreOrder: the increment of the next order id is forgotten
StoreOrder_NoIncrement(s, order) == [s EXCEPT !.orders = Put(@, order)]

\* self.orders[order.id] = order; self._next_order_id += ONE
StoreOrder(s, order) ==
    [s EXCEPT !.orders = Put(@, order), !.next_order_id = @ + ONE]

\* place_order from the stock decrement on
AcceptOrder(s, customer_id, product_id, quantity) ==
    LET product == Get(s.products, product_id)
        s1 == TakeStock(s, product_id, quantity)
        total_price == FloatMulInt(product.price, quantity)
        order == Order(s.next_order_id, customer_id, product_id, quantity,
                       total_price.val)
    IN  IF total_price.exc # None THEN Raise(s1, total_price.exc)
        ELSE IF order.exc # None THEN Raise(s1, order.exc)
        ELSE Return(StoreOrder(s1, order.obj), SUCCESS_ORDER_MSG)

\* mutant of place_order: the stock is not compared with the quantity
place_order_NoStockCheck(s, customer_id, product_id, quantity) ==
    IF ~_is_valid_non_negative_int(customer_id) THEN Raise(s, InvalidIdException)
    ELSE IF ~_is_valid_non_negative_int(product_id) THEN Raise(s, InvalidIdException)
    ELSE IF ~_is_valid_non_negative_int(quantity) THEN Raise(s, InvalidIdException)
    ELSE IF customer_id \notin Keys(s.customers) THEN Raise(s, InvalidIdException)
    ELSE IF product_id \notin Keys(s.products) THEN Return(s, NO_PRODUCT_MSG)
    ELSE AcceptOrder(s, customer_id, product_id, quantity)

\* mutant of place_order: a refused order still uses up an order id
place_order_CountsRefusals(s, customer_id, product_id, quantity) ==
    IF ~_is_valid_non_negative_int(customer_id) THEN Raise(s, InvalidIdException)
    ELSE IF ~_is_valid_non_negative_int(product_id) THEN Raise(s, InvalidIdException)
    ELSE IF ~_is_valid_non_negative_int(quantity) THEN Raise(s, InvalidIdException)
    ELSE IF customer_id \notin Keys(s.customers) THEN Raise(s, InvalidIdException)
    ELSE IF product_id \notin Keys(s.products) THEN Return(s, NO_PRODUCT_MSG)
    ELSE IF quantity > Get(s.products, product_id).quantity
    THEN Return([s EXCEPT !.next_order_id = @ + ONE], NOT_ENOUGH_STOCK_MSG)
    ELSE AcceptOrder(s, customer_id, product_id, quantity)

place_order(s, customer_id, product_id, quantity) ==
    IF ~_is_valid_non_negative_int(customer_id) THEN Raise(s, InvalidIdException)
    ELSE IF ~_is_valid_non_negative_int(product_id) THEN Raise(s, InvalidIdException)
    ELSE IF ~_is_valid_non_negative_int(quantity) THEN Raise(s, InvalidIdException)
    ELSE IF customer_id \notin Keys(s.customers) THEN Raise(s, InvalidIdException)
    ELSE IF product_id \notin Keys(s.products) THEN Return(s, NO_PRODUCT_MSG)
    ELSE IF quantity > Get(s.products, product_id).quantity
    THEN Return(s, NOT_ENOUGH_STOCK_MSG)
    ELSE AcceptOrder(s, customer_id, product_id, quantity)

\* mutant of RestoreStock: the stock is not given back
RestoreStock_Forgets(s, order) == s

\* product.quantity += order.quantity
RestoreStock(s, order) ==
    [s EXCEPT !.products =
        [i \in DOMAIN @ |-> IF @[i].id = order.product_id
                            THEN [@[i] EXCEPT !.quantity = @ + order.quantity]
                            ELSE @[i]]]

\* mutant of CustomerHasOrders: the order's own id is compared
CustomerHasOrders_ByOrderId(s, _id) == \E o \in Values(s.orders) : o.id = _id

\* any(o.customer_id == _id for o in self.orders.values())
CustomerHasOrders(s, _id) == \E o \in Values(s.orders) : o.customer_id = _id

\* mutant of ProductHasOrders: the orders are not looked at
ProductHasOrders_Never(s, _id) == FALSE

\* any(o.product_id == _id for o in self.orders.values())
ProductHasOrders(s, _id) == \E o \in Values(s.orders) : o.product_id = _id

\* mutant of SupplierHasProducts: the product's own id is compared
SupplierHasProducts_ByProductId(s, _id) == \E p \in Values(s.products) : p.id = _id

\* any(p.supplier_id == _id for p in self.products.values())
SupplierHasProducts(s, _id) == \E p \in Values(s.products) : p.supplier_id = _id

\* mutant of SupplierHasOrders: any order of a stored product blocks
SupplierHasOrders_AnyOrder(s, _id) ==
    \E o \in Values(s.orders) : o.product_id \in Keys(s.products)

\* the loop over the orders: an order of a product of that supplier
SupplierHasOrders(s, _id) ==
    \E o \in Values(s.orders) :
        /\ o.product_id \in Keys(s.products)
        /\ Get(s.products, o.product_id).supplier_id = _id

remove_order(s, _id) ==
    IF _id \notin Keys(s.orders) THEN Raise(s, InvalidIdException)
    ELSE LET order == Get(s.orders, _id)
         IN  IF order.product_id \notin Keys(s.products)
             THEN Raise(s, InvalidIdException)
             ELSE [sys |-> [RestoreStock(s, order) EXCEPT !.orders = Del(@, _id)],
                   res |-> None, ret |-> order.quantity]

\* mutant of remove_customer: the customer is deleted before the orders are looked at
remove_customer_DeleteFirst(s, _id) ==
    IF _id \notin Keys(s.customers) THEN Raise(s, InvalidIdException)
    ELSE IF CustomerHasOrders(s, _id)
    THEN Raise([s EXCEPT !.customers = Del(@, _id)], InvalidIdException)
    ELSE Return([s EXCEPT !.customers = Del(@, _id)], None)

remove_customer(s, _id) ==
    IF _id \notin Keys(s.customers) THEN Raise(s, InvalidIdException)
    ELSE IF CustomerHasOrders(s, _id) THEN Raise(s, InvalidIdException)
    ELSE Return([s EXCEPT !.customers = Del(@, _id)], None)

remove_product(s, _id) ==
    IF _id \notin Keys(s.products) THEN Raise(s, InvalidIdException)
    ELSE IF ProductHasOrders(s, _id) THEN Raise(s, InvalidIdException)
    ELSE Return([s EXCEPT !.products = Del(@, _id)], None)

remove_supplier(s, _id) ==
    IF _id \notin Keys(s.suppliers) THEN Raise(s, InvalidIdException)
    ELSE IF SupplierHasProducts(s, _id) THEN Raise(s, InvalidIdException)
    ELSE IF SupplierHasOrders(s, _id) THEN Raise(s, InvalidIdException)
    ELSE Return([s EXCEPT !.suppliers = Del(@, _id)], None)

remove_object(s, _id, class_type) ==
    IF ~_is_valid_non_negative_int(_id) THEN Raise(s, InvalidIdException)
    ELSE IF class_type = "Order" THEN remove_order(s, _id)
    ELSE IF class_type = "Customer" THEN remove_customer(s, _id)
    ELSE IF class_type = "Product" THEN remove_product(s, _id)
    ELSE IF class_type = "Supplier" THEN remove_supplier(s, _id)
    ELSE Raise(s, InvalidIdException)

\* max_price = None
NoPrice == [k |-> "none", v |-> 0]

\* the loop of search_products: the products kept, in dict order
Matches(s, query, max_price) ==
    SelectSeq(s.products,
              LAMBDA p : /\ p.quantity # ZERO
                         /\ Contains(lower(p.name), lower(query))
                         /\ (max_price = NoPrice \/ FloatLe(p.price, max_price)))

\* sorted(matches, key=lambda p: p.price): a stable sort, so an element goes
\* before the first one whose price is strictly greater
\* mutant of InsertByPrice: an element goes before the first one whose price
\* is greater or equal
RECURSIVE InsertByPrice_BeforeEqual(_, _)
InsertByPrice_BeforeEqual(list, p) ==
    IF list = <<>> THEN <<p>>
    ELSE IF FloatLe(p.price, Head(list).price)
         THEN <<p>> \o list
         ELSE <<Head(list)>> \o InsertByPrice_BeforeEqual(Tail(list), p)

RECURSIVE InsertByPrice(_, _)
InsertByPrice(list, p) ==
    IF list = <<>> THEN <<p>>
    ELSE IF FloatLe(Head(list).price, p.price)
         THEN <<Head(list)>> \o InsertByPrice(Tail(list), p)
         ELSE <<p>> \o list

RECURSIVE sorted(_)
sorted(list) ==
    IF list = <<>> THEN <<>>
    ELSE InsertByPrice(sorted(SubSeq(list, 1, Len(list) - 1)), list[Len(list)])

\* search_products returns [sys, res, list]
search_products(s, query, max_price) ==
    IF max_price # NoPrice /\ ~_is_valid_non_negative_real(max_price)
    THEN [sys |-> s, res |-> InvalidPriceException, list |-> <<>>]
    ELSE [sys |-> s, res |-> None, list |-> sorted(Matches(s, query, max_price))]

(* ------------------------- snapshot text: str ------------------------- *)
\* The tokens of an argument in a snapshot line: an integer literal, a
\* float literal, a bare name, a quoted text (raw holds its characters,
\* quotes included).
IntTok(n) == [t |-> "int", v |-> n, raw |-> <<>>]

FloatTok(n) == [t |-> "float", v |-> n, raw |-> <<>>]

NameTok(name) == [t |-> "name", v |-> 0, raw |-> <<name>>]

StrTok(raw) == [t |-> "str", v |-> 0, raw |-> raw]

\* '{self.name}' in an f-string: the text between two quotes, as it is
Quoted(text) == StrTok(<<"'">> \o text \o <<"'">>)

\* {self.price} in an f-string: str(float)
FloatStr(x) ==
    IF x.k = "inf" THEN NameTok("inf")
    ELSE IF x.k = "nan" THEN NameTok("nan")
    ELSE FloatTok(x.v)

Line(head, args) == [head |-> head, args |-> args]

\* Customer.__str__, Supplier.__str__, Product.__str__, Order.__str__
str_Customer(c) ==
    Line("Customer", <<IntTok(c.id), Quoted(c.name), Quoted(c.city), Quoted(c.address)>>)

str_Supplier(sup) ==
    Line("Supplier", <<IntTok(sup.id), Quoted(sup.name), Quoted(sup.city), Quoted(sup.address)>>)

str_Product(p) ==
    Line("Product", <<IntTok(p.id), Quoted(p.name), FloatStr(p.price),
                       IntTok(p.supplier_id), IntTok(p.quantity)>>)

str_Order(o) ==
    Line("Order", <<IntTok(o.id), IntTok(o.customer_id), IntTok(o.product_id),
                     IntTok(o.quantity), FloatStr(o.total_price)>>)

\* export_system_to_file: the lines written, customers, suppliers, products
export_system_to_file(s) ==
    [i \in DOMAIN s.customers |-> str_Customer(s.customers[i])]
    \o [i \in DOMAIN s.suppliers |-> str_Supplier(s.suppliers[i])]
    \o [i \in DOMAIN s.products |-> str_Product(s.products[i])]

(* ------------------------- snapshot text: eval ------------------------ *)
\* the index of the first quote in raw from position i on, 0 when none
RECURSIVE FindQuote(_, _)
FindQuote(raw, i) ==
    IF i > Len(raw) THEN 0
    ELSE IF raw[i] = "'" THEN i
    ELSE FindQuote(raw, i + 1)

\* the index of the first of three quotes in a row from position i on
RECURSIVE FindTriple(_, _)
FindTriple(raw, i) ==
    IF i + 2 > Len(raw) THEN 0
    ELSE IF raw[i] = "'" /\ raw[i + 1] = "'" /\ raw[i + 2] = "'" THEN i
    ELSE FindTriple(raw, i + 1)

\* Python's reading of quoted text from position i on, acc being the text
\* read so far: three quotes open a literal that runs to the next three
\* quotes, one quote a literal that runs to the next quote, literals in a
\* row are concatenated, and anything else after a literal is a syntax
\* error.  Result: [exc, val].
RECURSIVE StrLiteral(_, _, _)
StrLiteral(raw, i, acc) ==
    IF i > Len(raw) THEN [exc |-> None, val |-> acc]
    ELSE IF raw[i] # "'" THEN [exc |-> SyntaxError, val |-> <<>>]
    ELSE IF FindTriple(raw, i) = i
    THEN LET j == FindTriple(raw, i + 3)
         IN  IF j = 0 THEN [exc |-> SyntaxError, val |-> <<>>]
             ELSE StrLiteral(raw, j + 3, acc \o SubSeq(raw, i + 3, j - 1))
    ELSE LET j == FindQuote(raw, i + 1)
         IN  IF j = 0 THEN [exc |-> SyntaxError, val |-> <<>>]
             ELSE StrLiteral(raw, j + 1, acc \o SubSeq(raw, i + 1, j - 1))

\* the value of an argument token: [exc, val]; a bare name is looked up in
\* allowed_names and the builtins, where inf and nan are not
EvalArg(tok) ==
    IF tok.t = "int" THEN [exc |-> None, val |-> tok.v]
    ELSE IF tok.t = "float" THEN [exc |-> None, val |-> Fin(tok.v)]
    ELSE IF tok.t = "name" THEN [exc |-> NameError, val |-> <<>>]
    ELSE StrLiteral(tok.raw, 1, <<>>)

allowed_names == {"Customer", "Supplier", "Product"}

\* the number of parameters of a constructor
Arity(head) == IF head = "Product" THEN 5 ELSE 4

\* the call of the constructor that a line names, a being the values of its
\* arguments
Evaluated(head, a) ==
    LET v == [i \in DOMAIN a |-> a[i].val]
        fail(exc) == [exc |-> exc, cls |-> "", obj |-> <<>>]
    IN  IF head = "(" \/ \E i \in DOMAIN a : a[i].exc = SyntaxError
        THEN fail(SyntaxError)
        ELSE IF head = "5" THEN [exc |-> None, cls |-> "int", obj |-> <<>>]
        ELSE IF head \notin allowed_names \/ \E i \in DOMAIN a : a[i].exc = NameError
        THEN fail(NameError)
        ELSE IF Len(v) # Arity(head) THEN fail(TypeError)
        ELSE LET made == IF head = "Customer" THEN Customer(v[1], v[2], v[3], v[4])
                         ELSE IF head = "Supplier" THEN Supplier(v[1], v[2], v[3], v[4])
                         ELSE Product(v[1], v[2], v[3], v[4], v[5])
             IN  [exc |-> made.exc, cls |-> head, obj |-> made.obj]

\* eval(line, allowed_names): [exc, cls, obj].  The line is compiled first
\* (SyntaxError), then the name and the arguments are evaluated (NameError),
\* then the constructor is called (TypeError for a wrong number of
\* arguments, or what the constructor raises).  A line "(" stands for text
\* that does not compile, a line "5" for an expression whose value is no
\* record.
eval(line) == Evaluated(line.head, [i \in DOMAIN line.args |-> EvalArg(line.args[i])])

(* ----------------------- load_system_from_file ------------------------ *)
\* mutant of Caught: except Exception
Caught_All(exc) == TRUE

\* except (SyntaxError, NameError, TypeError, ValueError): continue
Caught(exc) == exc \in {SyntaxError, NameError, TypeError, ValueError}

\* The body of the loop over the lines for a line that evaluated to e: acc
\* is [exc, customers, suppliers, products], the exception that left the
\* loop (None when none did) and the records collected.
Collect(acc, e) ==
    IF e.exc # None
    THEN IF Caught(e.exc) THEN acc ELSE [acc EXCEPT !.exc = e.exc]
    ELSE IF e.cls = "Customer" THEN [acc EXCEPT !.customers = Append(@, e.obj)]
    ELSE IF e.cls = "Supplier" THEN [acc EXCEPT !.suppliers = Append(@, e.obj)]
    ELSE IF e.cls = "Product" THEN [acc EXCEPT !.products = Append(@, e.obj)]
    ELSE acc

\* the loop over the lines from line i on; a line with the empty head is a
\* blank line
RECURSIVE ReadLines(_, _, _)
ReadLines(lines, i, acc) ==
    IF i > Len(lines) \/ acc.exc # None THEN acc
    ELSE IF lines[i].head = "" THEN ReadLines(lines, i + 1, acc)
    ELSE ReadLines(lines, i + 1, Collect(acc, eval(lines[i])))

\* for c in customers: system.register_entity(c, True), and the same loop
\* for the suppliers: r is [sys, res, ret], and the first call that raises
\* ends the loop
RECURSIVE RegisterAll(_, _, _)
RegisterAll(r, list, is_customer) ==
    IF r.res # None \/ list = <<>> THEN r
    ELSE RegisterAll(register_entity(r.sys, Head(list), is_customer), Tail(list),
                     is_customer)

\* for p in products: system.add_or_update_product(p)
RECURSIVE AddAll(_, _)
AddAll(r, list) ==
    IF r.res # None \/ list = <<>> THEN r
    ELSE AddAll(add_or_update_product(r.sys, Head(list)), Tail(list))

\* mutant of ApplyLists: the suppliers are registered after the products
ApplyLists_ProductsFirst(s, cs, sups, ps) ==
    RegisterAll(AddAll(RegisterAll(Return(s, None), cs, TRUE), ps), sups, FALSE)

\* the three loops after the file is read
ApplyLists(s, cs, sups, ps) ==
    AddAll(RegisterAll(RegisterAll(Return(s, None), cs, TRUE), sups, FALSE), ps)

\* what load_system_from_file gives when the three loops ended as r: when
\* it raises, the caller gets no system
Loaded(r) == IF r.res # None THEN Raise(MatamazonSystem, r.res) ELSE r

\* load_system_from_file from the end of the loop over the lines on
LoadRecords(read) ==
    IF read.exc # None THEN Raise(MatamazonSystem, read.exc)
    ELSE Loaded(ApplyLists(MatamazonSystem, read.customers, read.suppliers,
                           read.products))

\* load_system_from_file: [sys, res, ret]
load_system_from_file(lines) ==
    LoadRecords(ReadLines(lines, 1, [exc |-> None, customers |-> <<>>,
                                     suppliers |-> <<>>, products |-> <<>>]))

(* ----------------------------- export_orders -------------------------- *)
\* mutant of SetDefaultAppend: grouped[city] = [text]
SetDefaultAppend_Overwrite(grouped, city, text) ==
    IF \E i \in DOMAIN grouped : grouped[i].city = city
    THEN [i \in DOMAIN grouped |->
            IF grouped[i].city = city
            THEN [grouped[i] EXCEPT !.list = <<text>>]
            ELSE grouped[i]]
    ELSE Append(grouped, [city |-> city, list |-> <<text>>])

\* grouped.setdefault(city, []).append(text): grouped is the sequence of
\* its items [city, list] in insertion order
SetDefaultAppend(grouped, city, text) ==
    IF \E i \in DOMAIN grouped : grouped[i].city = city
    THEN [i \in DOMAIN grouped |->
            IF grouped[i].city = city
            THEN [grouped[i] EXCEPT !.list = Append(@, text)]
            ELSE grouped[i]]
    ELSE Append(grouped, [city |-> city, list |-> <<text>>])

\* the loop of export_orders from order i on
RECURSIVE GroupOrders(_, _, _)
GroupOrders(s, i, grouped) ==
    IF i > Len(s.orders) THEN grouped
    ELSE LET o == s.orders[i]
         IN  IF o.product_id \notin Keys(s.products) THEN GroupOrders(s, i + 1, grouped)
             ELSE LET p == Get(s.products, o.product_id)
                  IN  IF p.supplier_id \notin Keys(s.suppliers)
                      THEN GroupOrders(s, i + 1, grouped)
                      ELSE GroupOrders(s, i + 1,
                              SetDefaultAppend(grouped,
                                               Get(s.suppliers, p.supplier_id).city,
                                               str_Order(o)))

\* export_orders: the JSON object written, as the sequence of its members
\* [city, list]
export_orders(s) == GroupOrders(s, 1, <<>>)

(* ----------------------- the command interpreter ---------------------- *)
\* A log line is the sequence of its tokens (line.strip().split(); no
\* tokens for a blank line); a token is a string.  The conversions of
\* tokens are given on the tokens the model's lines are written with.

\* int(token)
IntLiterals == ("0" :> 0) @@ ("1" :> 1) @@ ("2" :> 2) @@ ("5" :> 5) @@ ("-1" :> -1)

int(token) ==
    IF token \in DOMAIN IntLiterals THEN [exc |-> None, val |-> IntLiterals[token]]
    ELSE [exc |-> ValueError, val |-> 0]

\* float(token)
FloatLiterals ==
    ("0" :> Fin(0)) @@ ("1" :> Fin(1)) @@ ("2" :> Fin(2)) @@ ("5" :> Fin(5))
    @@ ("-1" :> Fin(-1)) @@ ("inf" :> Inf) @@ ("nan" :> NaN)

float(token) ==
    IF token \in DOMAIN FloatLiterals THEN [exc |-> None, val |-> FloatLiterals[token]]
    ELSE [exc |-> ValueError, val |-> NaN]

\* token.lower() and token.capitalize(), for the tokens that they change
LowerCased == ("REGISTER" :> "register") @@ ("Supplier" :> "supplier")
              @@ ("Customer" :> "customer") @@ ("Order" :> "order")

str_lower(token) == IF token \in DOMAIN LowerCased THEN LowerCased[token] ELSE token

Capitalized == ("order" :> "Order") @@ ("customer" :> "Customer")
               @@ ("product" :> "Product") @@ ("supplier" :> "Supplier")
               @@ ("basket" :> "Basket")

capitalize(token) == IF token \in DOMAIN Capitalized THEN Capitalized[token] ELSE token

\* the characters of the text tokens
Characters ==
    ("n" :> <<"n">>) @@ ("H" :> <<"H">>) @@ ("T" :> <<"T">>) @@ ("s" :> <<"s">>)
    @@ ("a" :> <<"a">>) @@ ("B" :> <<"B">>) @@ ("b" :> <<"b">>)
    @@ ("a_B" :> <<"a", "_", "B">>) @@ ("a/B" :> <<"a", "/", "B">>)

\* token.replace("/", " ").replace("_", " ")
_decode_text_token(token) ==
    LET text == Characters[token]
    IN  [i \in DOMAIN text |-> IF text[i] \in {"/", "_"} THEN " " ELSE text[i]]

\* line.startswith("#")
StartsWithHash(parts) == parts[1] \in {"#", "#note"}

\* mutant of UnknownCommand: a line of an unknown command is passed over
UnknownCommand_Ignored(s) == [sys |-> s, res |-> None, ret |-> -1, cmd |-> ""]

\* else: raise ValueError("Unknown command")
UnknownCommand(s) == [sys |-> s, res |-> ValueError, ret |-> -1, cmd |-> ""]

\* _execute_log_line: [sys, res, ret, cmd], where cmd is the command whose
\* store operation was called ("" when none was) and res is what the line
\* raised, if it raised, and else what the store operation returned.
_execute_log_line(s, parts) ==
    LET done(r, cmd) == [sys |-> r.sys, res |-> r.res, ret |-> r.ret, cmd |-> cmd]
        bad(exc) == [sys |-> s, res |-> exc, ret |-> -1, cmd |-> ""]
    IN  IF parts = <<>> \/ StartsWithHash(parts)
        THEN [sys |-> s, res |-> None, ret |-> -1, cmd |-> ""]
        ELSE LET cmd == str_lower(parts[1])
        IN  IF cmd = "register"
            THEN IF Len(parts) # 6 THEN bad(ValueError)
                 ELSE LET who == str_lower(parts[2])
                          _id == int(parts[3])
                          name == _decode_text_token(parts[4])
                          city == _decode_text_token(parts[5])
                          address == _decode_text_token(parts[6])
                      IN  IF _id.exc # None THEN bad(_id.exc)
                          ELSE IF who = "customer"
                          THEN LET entity == Customer(_id.val, name, city, address)
                               IN  IF entity.exc # None THEN bad(entity.exc)
                                   ELSE done(register_entity(s, entity.obj, TRUE), cmd)
                          ELSE IF who = "supplier"
                          THEN LET entity == Supplier(_id.val, name, city, address)
                               IN  IF entity.exc # None THEN bad(entity.exc)
                                   ELSE done(register_entity(s, entity.obj, FALSE), cmd)
                          ELSE bad(ValueError)
            ELSE IF cmd \in {"add", "update"}
            THEN IF Len(parts) # 6 THEN bad(ValueError)
                 ELSE LET pid == int(parts[2])
                          name == _decode_text_token(parts[3])
                          price == float(parts[4])
                          supplier_id == int(parts[5])
                          quantity == int(parts[6])
                      IN  IF pid.exc # None THEN bad(pid.exc)
                          ELSE IF price.exc # None THEN bad(price.exc)
                          ELSE IF supplier_id.exc # None THEN bad(supplier_id.exc)
                          ELSE IF quantity.exc # None THEN bad(quantity.exc)
                          ELSE LET product == Product(pid.val, name, price.val,
                                                      supplier_id.val, quantity.val)
                               IN  IF product.exc # None THEN bad(product.exc)
                                   ELSE done(add_or_update_product(s, product.obj), cmd)
            ELSE IF cmd = "order"
            THEN IF Len(parts) \notin {3, 4} THEN bad(ValueError)
                 ELSE LET customer_id == int(parts[2])
                          product_id == int(parts[3])
                          quantity == IF Len(parts) = 4 THEN int(parts[4])
                                      ELSE [exc |-> None, val |-> ONE]
                      IN  IF customer_id.exc # None THEN bad(customer_id.exc)
                          ELSE IF product_id.exc # None THEN bad(product_id.exc)
                          ELSE IF quantity.exc # None THEN bad(quantity.exc)
                          ELSE done(place_order(s, customer_id.val, product_id.val,
                                                quantity.val), cmd)
            ELSE IF cmd = "remove"
            THEN IF Len(parts) # 3 THEN bad(ValueError)
                 ELSE LET class_type == capitalize(parts[2])
                          _id == int(parts[3])
                      IN  IF _id.exc # None THEN bad(_id.exc)
                          ELSE done(remove_object(s, _id.val, class_type), cmd)
            ELSE IF cmd = "search"
            THEN IF Len(parts) \notin {2, 3} THEN bad(ValueError)
                 ELSE LET query == _decode_text_token(parts[2])
                          max_price == IF Len(parts) = 3 THEN float(parts[3])
                                       ELSE [exc |-> None, val |-> NoPrice]
                      IN  IF max_price.exc # None THEN bad(max_price.exc)
                          ELSE LET r == search_products(s, query, max_price.val)
                               IN  [sys |-> r.sys, res |-> r.res, ret |-> Len(r.list),
                                    cmd |-> cmd]
            ELSE UnknownCommand(s)

(* --------------------------- state and inputs ------------------------- *)
\* the MatamazonSystem object the calls are made on
Self ==
    [customers |-> customers, suppliers |-> suppliers, products |-> products,
     orders |-> orders, next_order_id |-> next_order_id]

\* The arguments the calls are tried with: every valid combination, and one
\* combination per validation that can fail (-1 stands for an invalid id or
\* quantity, Fin(-1) for an invalid price).
Cids == 1..MaxCid
Sids == 0..MaxSid
Pids == 0..MaxPid
Qtys == 0..MaxQty
CustomerArgs ==
    {[id |-> id, name |-> <<"n">>, city |-> <<"H">>, address |-> <<"s">>] :
        id \in Cids \cup {-1}}
SupplierArgs ==
    {[id |-> id, name |-> <<"n">>, city |-> <<"H">>, address |-> <<"s">>] :
        id \in Sids \cup {-1}}
ProductTexts == {[name |-> <<"a">>, price |-> Fin(1)], [name |-> <<"B">>, price |-> Inf]}
ProductArgs ==
    {[id |-> id, name |-> t.name, price |-> t.price, supplier_id |-> sup,
      quantity |-> q] : id \in Pids, t \in ProductTexts, sup \in Sids, q \in Qtys}
    \cup {[id |-> -1, name |-> <<"a">>, price |-> Fin(1), supplier_id |-> 0, quantity |-> 1],
          [id |-> 0, name |-> <<"a">>, price |-> Fin(1), supplier_id |-> -1, quantity |-> 1],
          [id |-> 0, name |-> <<"a">>, price |-> Fin(1), supplier_id |-> 0, quantity |-> -1],
          [id |-> 0, name |-> <<"a">>, price |-> Fin(-1), supplier_id |-> 0, quantity |-> 1]}
OrderArgs ==
    {[customer_id |-> c, product_id |-> p, quantity |-> q] :
        c \in Cids, p \in Pids, q \in Qtys}
    \cup {[customer_id |-> -1, product_id |-> 0, quantity |-> 1],
          [customer_id |-> 0, product_id |-> -1, quantity |-> 1],
          [customer_id |-> 0, product_id |-> 0, quantity |-> -1]}
ClassTypes == {"Order", "Customer", "Product", "Supplier", "Basket"}
RemoveIds == Cids \cup Sids \cup Pids \cup 1..MaxOrders \cup {-1}
QueryInputs == {<<>>, <<"a">>, <<"b">>}
MaxPriceInputs == {NoPrice, Fin(-1), Fin(1)}

\* the store after a call
Store(s) ==
    /\ customers' = s.customers
    /\ suppliers' = s.suppliers
    /\ products' = s.products
    /\ orders' = s.orders
    /\ next_order_id' = s.next_order_id

\* What the call was and gave: last records the operation, its kind argument,
\* the id it was about, what it raised or returned; placed counts the calls
\* that returned SUCCESS_ORDER_MSG.
Record(op, kind, id, res, ret) ==
    /\ last' = [op |-> op, kind |-> kind, id |-> id, res |-> res, ret |-> ret]
    /\ placed' = IF res = SUCCESS_ORDER_MSG THEN placed + 1 ELSE placed
    /\ UNCHANGED <<snapshot, output>>

Init ==
    /\ customers = MatamazonSystem.customers
    /\ suppliers = MatamazonSystem.suppliers
    /\ products = MatamazonSystem.products
    /\ orders = MatamazonSystem.orders
    /\ next_order_id = MatamazonSystem.next_order_id
    /\ last = [op |-> "init", kind |-> "", id |-> -1, res |-> None, ret |-> -1]
    /\ placed = 0
    /\ snapshot = <<>>
    /\ output = [error |-> FALSE, orders |-> <<>>, system |-> <<>>]

\* register <customer|supplier> ...: construct the entity, register it
RegisterEntity ==
    \E is_customer \in BOOLEAN :
      \E a \in (IF is_customer THEN CustomerArgs ELSE SupplierArgs) :
        LET kind == IF is_customer THEN "Customer" ELSE "Supplier"
            entity == IF is_customer THEN Customer(a.id, a.name, a.city, a.address)
                      ELSE Supplier(a.id, a.name, a.city, a.address)
        IN  IF entity.exc # None
            THEN /\ Store(Self)
                 /\ Record("register", kind, a.id, entity.exc, -1)
            ELSE LET r == register_entity(Self, entity.obj, is_customer)
                 IN  /\ Store(r.sys)
                     /\ Record("register", kind, a.id, r.res, r.ret)

\* add|update ...: construct the product, add or update it
AddOrUpdateProduct ==
    \E a \in ProductArgs :
        LET product == Product(a.id, a.name, a.price, a.supplier_id, a.quantity)
        IN  IF product.exc # None
            THEN /\ Store(Self)
                 /\ Record("add", "Product", a.id, product.exc, -1)
            ELSE LET r == add_or_update_product(Self, product.obj)
                 IN  /\ Store(r.sys)
                     /\ Record("add", "Product", a.id, r.res, r.ret)

\* order ...; the number of orders ever created is capped at MaxOrders
PlaceOrder ==
    \E a \in OrderArgs :
        LET r == place_order(Self, a.customer_id, a.product_id, a.quantity)
        IN  /\ r.res = SUCCESS_ORDER_MSG => next_order_id <= MaxOrders
            /\ Store(r.sys)
            /\ Record("order", "Order", a.product_id, r.res, r.ret)

\* remove <kind> <id>
RemoveObject ==
    \E _id \in RemoveIds, class_type \in ClassTypes :
        LET r == remove_object(Self, _id, class_type)
        IN  /\ Store(r.sys)
            /\ Record("remove", class_type, _id, r.res, r.ret)

\* search <query> [maxPrice]
SearchProducts ==
    \E query \in QueryInputs, max_price \in MaxPriceInputs :
        LET r == search_products(Self, query, max_price)
        IN  /\ Store(r.sys)
            /\ Record("search", "Product", -1, r.res, Len(r.list))

Next ==
    \/ RegisterEntity
    \/ AddOrUpdateProduct
    \/ PlaceOrder
    \/ RemoveObject
    \/ SearchProducts

Spec == Init /\ [][Next]_vars

(* ------------------------- the run of the script --------------------- *)
\* what the script has written: whether ERROR_LINE was printed, the orders
\* written (to -o or the screen) and the snapshot written to -os, each as a
\* sequence of no or one element; the results that search prints are left
\* out
NoOutput == [error |-> FALSE, orders |-> <<>>, system |-> <<>>]

\* the loop over the log is running: no line has raised and the end of
\* the log has not been reached
Running == ~output.error /\ output.orders = <<>>

(* ------------------ the operations on other input sets ---------------- *)
\* the actions of Spec, with the arguments drawn from the sets given
RegisterEntityOf(args, is_customer) ==
    \E a \in args :
        LET kind == IF is_customer THEN "Customer" ELSE "Supplier"
            entity == IF is_customer THEN Customer(a.id, a.name, a.city, a.address)
                      ELSE Supplier(a.id, a.name, a.city, a.address)
        IN  IF entity.exc # None
            THEN /\ Store(Self)
                 /\ Record("register", kind, a.id, entity.exc, -1)
            ELSE LET r == register_entity(Self, entity.obj, is_customer)
                 IN  /\ Store(r.sys)
                     /\ Record("register", kind, a.id, r.res, r.ret)

AddOrUpdateProductOf(args) ==
    \E a \in args :
        LET product == Product(a.id, a.name, a.price, a.supplier_id, a.quantity)
        IN  IF product.exc # None
            THEN /\ Store(Self)
                 /\ Record("add", "Product", a.id, product.exc, -1)
            ELSE LET r == add_or_update_product(Self, product.obj)
                 IN  /\ Store(r.sys)
                     /\ Record("add", "Product", a.id, r.res, r.ret)

PlaceOrderOf(args, max_orders) ==
    \E a \in args :
        LET r == place_order(Self, a.customer_id, a.product_id, a.quantity)
        IN  /\ r.res = SUCCESS_ORDER_MSG => next_order_id <= max_orders
            /\ Store(r.sys)
            /\ Record("order", "Order", a.product_id, r.res, r.ret)

RemoveObjectOf(ids, class_types) ==
    \E _id \in ids, class_type \in class_types :
        LET r == remove_object(Self, _id, class_type)
        IN  /\ Store(r.sys)
            /\ Record("remove", class_type, _id, r.res, r.ret)

SearchProductsOf(queries, max_prices) ==
    \E query \in queries, max_price \in max_prices :
        LET r == search_products(Self, query, max_price)
        IN  /\ Store(r.sys)
            /\ Record("search", "Product", -1, r.res, Len(r.list))

(* ------------------------- searching: inputs -------------------------- *)
\* One supplier, the products 0..MaxSearchPid with names in both cases,
\* equal and different prices, in stock and out of stock.
SearchSuppliers == {[id |-> 0, name |-> <<"n">>, city |-> <<"H">>, address |-> <<"s">>]}

SearchTexts ==
    {[name |-> <<"a", "B">>, price |-> Fin(2)], [name |-> <<"b">>, price |-> Fin(1)],
     [name |-> <<"A">>, price |-> Fin(1)], [name |-> <<"b">>, price |-> Inf]}

SearchProductArgs ==
    {[id |-> id, name |-> t.name, price |-> t.price, supplier_id |-> 0, quantity |-> q] :
        id \in 0..MaxSearchPid, t \in SearchTexts, q \in 0..1}

SearchQueries == {<<>>, <<"b">>, <<"B">>, <<"a", "b">>, <<"c">>}

SearchMaxPrices == {NoPrice, Fin(0), Fin(1), Inf, Fin(-1)}

SearchRegister == Running /\ RegisterEntityOf(SearchSuppliers, FALSE)

SearchAdd == Running /\ AddOrUpdateProductOf(SearchProductArgs)

SearchRemove == Running /\ RemoveObjectOf(0..MaxSearchPid, {"Product"})

SearchSearch == Running /\ SearchProductsOf(SearchQueries, SearchMaxPrices)

NextSearch ==
    \/ SearchRegister
    \/ SearchAdd
    \/ SearchRemove
    \/ SearchSearch

SpecSearch == Init /\ [][NextSearch]_vars

(* --------------------- loading a snapshot: inputs --------------------- *)
\* The lines the snapshot files are made of: lines as export_system_to_file
\* writes them, lines whose record the constructors reject (a negative id,
\* a negative price), a product of another supplier, lines that do not
\* evaluate (price=inf, a name with a quote in it, text that does not
\* compile, a name that is not allowed, too few arguments), a line whose
\* value is no record, and a blank line.
CustomerLine(id) ==
    Line("Customer", <<IntTok(id), Quoted(<<"n">>), Quoted(<<"H">>), Quoted(<<"s">>)>>)

SupplierLine(id, city) ==
    Line("Supplier", <<IntTok(id), Quoted(<<"n">>), Quoted(city), Quoted(<<"s">>)>>)

ProductLine(id, name, price, supplier_id, quantity) ==
    Line("Product", <<IntTok(id), Quoted(name), price, IntTok(supplier_id),
                       IntTok(quantity)>>)

SnapshotLines ==
    {CustomerLine(1), CustomerLine(-1),
     SupplierLine(0, <<"H">>), SupplierLine(1, <<"T">>),
     ProductLine(0, <<"a">>, FloatTok(1), 0, 1),
     ProductLine(0, <<"B">>, FloatTok(2), 0, 2),
     ProductLine(0, <<"a">>, FloatTok(1), 1, 1),
     ProductLine(1, <<"a">>, FloatTok(-1), 0, 1),
     ProductLine(1, <<"a">>, NameTok("inf"), 0, 1),
     ProductLine(1, <<"a", "'">>, FloatTok(1), 0, 1),
     Line("Order", <<IntTok(1), IntTok(1), IntTok(0), IntTok(1), FloatTok(1)>>),
     Line("Customer", <<IntTok(1)>>),
     Line("(", <<>>), Line("5", <<>>), Line("", <<>>)}

\* the files of n lines
SnapshotFiles(n) == [1..n -> SnapshotLines]

\* the script is started with -s <file>
InitLoad ==
    /\ customers = MatamazonSystem.customers
    /\ suppliers = MatamazonSystem.suppliers
    /\ products = MatamazonSystem.products
    /\ orders = MatamazonSystem.orders
    /\ next_order_id = MatamazonSystem.next_order_id
    /\ last = [op |-> "init", kind |-> "", id |-> -1, res |-> None, ret |-> -1]
    /\ placed = 0
    /\ \E n \in 0..MaxLines : snapshot \in SnapshotFiles(n)
    /\ output = [error |-> FALSE, orders |-> <<>>, system |-> <<>>]

\* system = load_system_from_file(args.system_path)
LoadSystemFromFile ==
    /\ last.op = "init"
    /\ \E r \in {load_system_from_file(snapshot)} :
          /\ Store(r.sys)
          /\ Record("load", "", -1, r.res, r.ret)

NextLoad == LoadSystemFromFile

SpecLoad == InitLoad /\ [][NextLoad]_vars

(* ------------------------ replaying a log: inputs --------------------- *)
\* The lines the logs are made of: a blank line, a comment, lines of every
\* command, and lines that are malformed (a wrong number of tokens, a token
\* that is no number, an unknown kind, an unknown command) or whose store
\* operation raises.
LogLines ==
    {<<>>, <<"#note">>,
     <<"register", "customer", "1", "n", "H", "s">>,
     <<"REGISTER", "Supplier", "0", "n", "H", "s">>,
     <<"register", "supplier", "1", "n", "T", "s">>,
     <<"register", "customer", "x", "n", "H", "s">>,
     <<"register", "basket", "1", "n", "H", "s">>,
     <<"register", "customer", "1", "n", "H">>,
     <<"register", "customer", "-1", "n", "H", "s">>,
     <<"add", "0", "a", "1", "0", "2">>,
     <<"update", "0", "a_B", "inf", "0", "1">>,
     <<"add", "0", "a", "-1", "0", "1">>,
     <<"add", "0", "a", "1">>,
     <<"order", "1", "0">>,
     <<"order", "1", "0", "2">>,
     <<"order", "1", "5">>,
     <<"order", "1", "0", "1", "1">>,
     <<"remove", "order", "1">>,
     <<"remove", "customer", "1">>,
     <<"remove", "product", "0">>,
     <<"remove", "supplier", "0">>,
     <<"remove", "basket", "1">>,
     <<"search", "a">>,
     <<"search", "b", "1">>,
     <<"search", "a", "x">>,
     <<"search", "a", "-1">>,
     <<"frobnicate", "1">>}

\* except Exception: every exception a line can raise
Raised(res) ==
    res \in {InvalidIdException, InvalidPriceException, SyntaxError, NameError,
             TypeError, ValueError, OverflowError}

\* the script is started without -s
InitLog ==
    /\ customers = MatamazonSystem.customers
    /\ suppliers = MatamazonSystem.suppliers
    /\ products = MatamazonSystem.products
    /\ orders = MatamazonSystem.orders
    /\ next_order_id = MatamazonSystem.next_order_id
    /\ last = [op |-> "init", kind |-> "", id |-> -1, res |-> None, ret |-> -1]
    /\ placed = 0
    /\ snapshot = <<>>
    /\ output = NoOutput

\* for line in log_f: _execute_log_line(system, line), for the next line of
\* the log; a line that raises ends the loop in the except clause, which
\* prints ERROR_LINE.  last records the first token of the line and the
\* command called; the number of orders ever created is capped at MaxOrders.
ExecuteLogLine ==
    /\ Running
    /\ \E parts \in LogLines :
          LET r == _execute_log_line(Self, parts)
          IN  /\ r.res = SUCCESS_ORDER_MSG => next_order_id <= MaxOrders
              /\ Store(r.sys)
              /\ last' = [op |-> IF parts = <<>> THEN "" ELSE parts[1],
                          kind |-> r.cmd, id |-> -1, res |-> r.res, ret |-> r.ret]
              /\ placed' = IF r.res = SUCCESS_ORDER_MSG THEN placed + 1 ELSE placed
              /\ snapshot' = snapshot
              /\ output' = IF Raised(r.res) THEN [output EXCEPT !.error = TRUE]
                           ELSE output

\* the log has ended: export_orders, and export_system_to_file when -os is
\* given
EndOfLog ==
    /\ Running
    /\ \E os \in BOOLEAN :
          output' = [error |-> FALSE, orders |-> <<export_orders(Self)>>,
                     system |-> IF os THEN <<export_system_to_file(Self)>> ELSE <<>>]
    /\ last' = [op |-> "export", kind |-> "", id |-> -1, res |-> None, ret |-> -1]
    /\ UNCHANGED <<customers, suppliers, products, orders, next_order_id, placed,
                   snapshot>>

NextLog ==
    \/ ExecuteLogLine
    \/ EndOfLog

SpecLog == InitLog /\ [][NextLog]_vars

(* ---------------------- exporting the orders: inputs ------------------ *)
\* One customer, supplier 0 in city H and supplier 1 in city T or H, a
\* product of each supplier, orders of one unit, at most MaxExportOrders
\* orders, and the end of the run, where the orders are written.
ExportCustomers == {[id |-> 1, name |-> <<"n">>, city |-> <<"T">>, address |-> <<"s">>]}

ExportSuppliers ==
    {[id |-> 0, name |-> <<"n">>, city |-> <<"H">>, address |-> <<"s">>],
     [id |-> 1, name |-> <<"n">>, city |-> <<"T">>, address |-> <<"s">>],
     [id |-> 1, name |-> <<"n">>, city |-> <<"H">>, address |-> <<"s">>]}

ExportProductArgs ==
    {[id |-> id, name |-> <<"a">>, price |-> Fin(1), supplier_id |-> id,
      quantity |-> MaxExportOrders] : id \in 0..1}

ExportOrderArgs == {[customer_id |-> 1, product_id |-> p, quantity |-> 1] : p \in 0..1}

ExportRegisterCustomer == Running /\ RegisterEntityOf(ExportCustomers, TRUE)

ExportRegisterSupplier == Running /\ RegisterEntityOf(ExportSuppliers, FALSE)

ExportAdd == Running /\ AddOrUpdateProductOf(ExportProductArgs)

ExportOrder == Running /\ PlaceOrderOf(ExportOrderArgs, MaxExportOrders)

ExportRemove == Running /\ RemoveObjectOf(1..MaxExportOrders, {"Order"})

NextExport ==
    \/ ExportRegisterCustomer
    \/ ExportRegisterSupplier
    \/ ExportAdd
    \/ ExportOrder
    \/ ExportRemove
    \/ EndOfLog

SpecExport == Init /\ [][NextExport]_vars

(* --------------------- writing the snapshot: inputs ------------------- *)
\* One customer, one supplier, the products 0 and 1 with a plain name or a
\* name with a quote in it (as in the log line add 0 a' 1 0 1), one order,
\* and the end of the run, where the snapshot is written.
SnapshotProductArgs ==
    {[id |-> id, name |-> name, price |-> Fin(1), supplier_id |-> 0, quantity |-> q] :
        id \in 0..1, name \in {<<"a">>, <<"a", "'">>}, q \in 0..1}

SnapshotOrderArgs == {[customer_id |-> 1, product_id |-> 0, quantity |-> 1]}

SnapshotRegisterCustomer == Running /\ RegisterEntityOf(ExportCustomers, TRUE)

SnapshotRegisterSupplier == Running /\ RegisterEntityOf(SearchSuppliers, FALSE)

SnapshotAdd == Running /\ AddOrUpdateProductOf(SnapshotProductArgs)

SnapshotOrder == Running /\ PlaceOrderOf(SnapshotOrderArgs, ONE)

SnapshotRemove == Running /\ RemoveObjectOf(0..1, {"Product", "Customer"})

NextSnapshot ==
    \/ SnapshotRegisterCustomer
    \/ SnapshotRegisterSupplier
    \/ SnapshotAdd
    \/ SnapshotOrder
    \/ SnapshotRemove
    \/ EndOfLog

SpecSnapshot == Init /\ [][NextSnapshot]_vars

(* ------------------------ stock and orders: inputs -------------------- *)
\* One customer, one supplier, product 0 at price 1 with a stock of
\* MaxQty or of Huge units, orders of one unit or of Huge units, at most
\* MaxOrders orders.
Huge == FloatMaxInt + 1

StockProductArgs ==
    {[id |-> 0, name |-> <<"a">>, price |-> Fin(1), supplier_id |-> 0, quantity |-> q] :
        q \in {MaxQty, Huge}}

StockOrderArgs == {[customer_id |-> 1, product_id |-> 0, quantity |-> q] : q \in {1, Huge}}

StockRegisterCustomer == Running /\ RegisterEntityOf(ExportCustomers, TRUE)

StockRegisterSupplier == Running /\ RegisterEntityOf(SearchSuppliers, FALSE)

StockAdd == Running /\ AddOrUpdateProductOf(StockProductArgs)

StockOrder == Running /\ PlaceOrderOf(StockOrderArgs, MaxOrders)

StockRemove == Running /\ RemoveObjectOf(1..MaxOrders, {"Order"})

NextStock ==
    \/ StockRegisterCustomer
    \/ StockRegisterSupplier
    \/ StockAdd
    \/ StockOrder
    \/ StockRemove

SpecStock == Init /\ [][NextStock]_vars

(* ------------------------------- claims ------------------------------- *)
\* the valid argument combinations
ValidCustomers == {a \in CustomerArgs : a.id >= 0}
ValidSuppliers == {a \in SupplierArgs : a.id >= 0}
ValidProducts ==
    {a \in ProductArgs : a.id >= 0 /\ a.supplier_id >= 0 /\ a.quantity >= 0
                         /\ FloatGeZero(a.price)}
ValidOrders == {a \in OrderArgs : a.customer_id >= 0 /\ a.product_id >= 0 /\ a.quantity >= 0}

\* C1 (as claimed): registering an entity whose id is already a customer or
\* a supplier raises InvalidIdException and leaves the store unchanged, so
\* no id is both a customer and a supplier.
C1_SharedNamespace ==
    /\ \A a \in ValidCustomers \cup ValidSuppliers, is_customer \in BOOLEAN :
          a.id \in Keys(customers) \cup Keys(suppliers)
          => register_entity(Self, a, is_customer) = Raise(Self, InvalidIdException)
    /\ Keys(customers) \cap Keys(suppliers) = {}

\* C2: the k-th call of place_order that returns the success message creates
\* the order with id k, whatever calls failed in between: on every step that
\* takes the count of successful calls to k, an order with id k is added and
\* no other order id appears or disappears.
C2_KthOrderHasIdK ==
    [][placed' # placed =>
          /\ placed' = placed + 1
          /\ placed' \notin Keys(orders)
          /\ Keys(orders') = Keys(orders) \cup {placed'}
          /\ orders'[Len(orders')].id = placed']_vars

\* C2 witness: the second successful call has just created order 2, after
\* the first order was created
C2_Witness ==
    /\ placed = 2
    /\ last.op = "order" /\ last.res = SUCCESS_ORDER_MSG
    /\ 2 \in Keys(orders)

\* C3 (as claimed): place_order by a registered customer for an existing
\* product with quantity <= stock returns the success message, takes exactly
\* quantity from the stock of that product, stores one new order with the
\* customer, the product, the quantity and price * quantity, and changes
\* nothing else.
C3_PlaceOrderSucceeds ==
    \A a \in ValidOrders :
        (/\ a.customer_id \in Keys(customers)
         /\ a.product_id \in Keys(products)
         /\ a.quantity <= Get(products, a.product_id).quantity)
        => LET r == place_order(Self, a.customer_id, a.product_id, a.quantity)
               before == Get(products, a.product_id)
           IN  /\ r.res = SUCCESS_ORDER_MSG
               /\ r.sys.customers = customers
               /\ r.sys.suppliers = suppliers
               /\ Len(r.sys.products) = Len(products)
               /\ \A i \in DOMAIN products :
                     r.sys.products[i] =
                        IF products[i].id = a.product_id
                        THEN [before EXCEPT !.quantity = before.quantity - a.quantity]
                        ELSE products[i]
               /\ Len(r.sys.orders) = Len(orders) + 1
               /\ SubSeq(r.sys.orders, 1, Len(orders)) = orders
               /\ LET o == r.sys.orders[Len(r.sys.orders)]
                  IN  /\ o.customer_id = a.customer_id
                      /\ o.product_id = a.product_id
                      /\ o.quantity = a.quantity
                      /\ o.total_price = FloatMulInt(before.price, a.quantity).val

\* C4: a place_order call that returns the no-such-product or the
\* insufficient-stock message changes nothing; a registered customer gets the
\* first for a product id not in the store and the second for a quantity
\* above the stock.
C4_OutcomesChangeNothing ==
    \A a \in ValidOrders :
        LET r == place_order(Self, a.customer_id, a.product_id, a.quantity)
        IN  /\ r.res \in {NO_PRODUCT_MSG, NOT_ENOUGH_STOCK_MSG} => r.sys = Self
            /\ a.customer_id \in Keys(customers) =>
                  /\ a.product_id \notin Keys(products) =>
                        r = Return(Self, NO_PRODUCT_MSG)
                  /\ (/\ a.product_id \in Keys(products)
                      /\ a.quantity > Get(products, a.product_id).quantity) =>
                        r = Return(Self, NOT_ENOUGH_STOCK_MSG)

\* C4 witness: an order for more than the stock has just been answered with
\* the insufficient-stock message, an earlier order being stored
C4_Witness ==
    /\ last.op = "order" /\ last.res = NOT_ENOUGH_STOCK_MSG
    /\ last.id \in Keys(products)
    /\ orders # <<>>

\* C5: remove_object on a stored order gives the order's quantity back to its
\* product, deletes the order and returns that quantity; a successful
\* place_order directly followed by the removal of the order it created
\* leaves the product's quantity as it was before the place_order.
C5_RemoveOrderRestoresStock ==
    /\ \A o \in Values(orders) :
          LET r == remove_object(Self, o.id, "Order")
          IN  /\ r.res = None
              /\ r.ret = o.quantity
              /\ r.sys.orders = Del(orders, o.id)
              /\ o.id \notin Keys(r.sys.orders)
              /\ o.product_id \in Keys(products)
              /\ Get(r.sys.products, o.product_id).quantity
                    = Get(products, o.product_id).quantity + o.quantity
    /\ \A a \in ValidOrders :
          LET r1 == place_order(Self, a.customer_id, a.product_id, a.quantity)
              r2 == remove_object(r1.sys, next_order_id, "Order")
          IN  r1.res = SUCCESS_ORDER_MSG =>
                 /\ r2.res = None
                 /\ r2.ret = a.quantity
                 /\ r2.sys.products = products
                 /\ r2.sys.orders = orders

\* C5 witness: an order of a positive quantity has just been removed and its
\* quantity returned
C5_Witness ==
    /\ last.op = "remove" /\ last.kind = "Order" /\ last.res = None
    /\ last.ret >= 1
    /\ last.id \notin Keys(orders)
    /\ products # <<>>

\* the orders of store s that depend on a customer, a product, a supplier,
\* and the products that reference a supplier
OrdersOfCustomer(s, c) == {o \in Values(s.orders) : o.customer_id = c}

OrdersOfProduct(s, p) == {o \in Values(s.orders) : o.product_id = p}

ProductsOfSupplier(s, sup) == {p \in Values(s.products) : p.supplier_id = sup}

OrdersOfSupplier(s, sup) ==
    {o \in Values(s.orders) : \E p \in ProductsOfSupplier(s, sup) : p.id = o.product_id}

\* remove_object(s, _id, class_type) returned and the object is gone
Removed(s, _id, class_type) ==
    LET r == remove_object(s, _id, class_type)
    IN  /\ r.res = None
        /\ r.sys = [s EXCEPT !.customers = IF class_type = "Customer" THEN Del(@, _id) ELSE @,
                             !.products = IF class_type = "Product" THEN Del(@, _id) ELSE @,
                             !.suppliers = IF class_type = "Supplier" THEN Del(@, _id) ELSE @]
        /\ class_type = "Customer" => _id \notin Keys(r.sys.customers)
        /\ class_type = "Product" => _id \notin Keys(r.sys.products)
        /\ class_type = "Supplier" => _id \notin Keys(r.sys.suppliers)

\* C6: while a stored order references a customer, a product or (through its
\* product) a supplier, remove_object on that customer, product or supplier
\* raises InvalidIdException and the store, the entity included, stays as
\* it is.
C6_ReferencedCannotBeRemoved ==
    \A o \in Values(orders) :
        /\ o.customer_id \in Keys(customers)
        /\ remove_object(Self, o.customer_id, "Customer") = Raise(Self, InvalidIdException)
        /\ o.product_id \in Keys(products)
        /\ remove_object(Self, o.product_id, "Product") = Raise(Self, InvalidIdException)
        /\ LET sup == Get(products, o.product_id).supplier_id
           IN  /\ sup \in Keys(suppliers)
               /\ remove_object(Self, sup, "Supplier") = Raise(Self, InvalidIdException)

\* C6 witness: the removal of a registered customer that an order references
\* has just been refused
C6_Witness ==
    /\ last.op = "remove" /\ last.kind = "Customer" /\ last.res = InvalidIdException
    /\ last.id \in Keys(customers)
    /\ OrdersOfCustomer(Self, last.id) # {}

\* C7 (as claimed): when the last order that depends on a customer, a product
\* or a supplier is removed, remove_object on that customer, product or
\* supplier succeeds and deletes it.
C7_RemovableOnceOrdersGone ==
    [][/\ \A c \in Keys(customers') :
             OrdersOfCustomer(Self, c) # {} /\ OrdersOfCustomer(Self', c) = {}
             => Removed(Self', c, "Customer")
       /\ \A p \in Keys(products') :
             OrdersOfProduct(Self, p) # {} /\ OrdersOfProduct(Self', p) = {}
             => Removed(Self', p, "Product")
       /\ \A sup \in Keys(suppliers') :
             OrdersOfSupplier(Self, sup) # {} /\ OrdersOfSupplier(Self', sup) = {}
             => Removed(Self', sup, "Supplier")]_vars

\* C7 (amended): a registered customer or a stored product that no order
\* references (any more) can be removed; a registered supplier can be removed
\* once no order references one of its products and, moreover, no product
\* references the supplier; while a product references it, it cannot.
C7_RemovableWithoutDependents ==
    /\ \A c \in Keys(customers) :
          OrdersOfCustomer(Self, c) = {} => Removed(Self, c, "Customer")
    /\ \A p \in Keys(products) :
          OrdersOfProduct(Self, p) = {} => Removed(Self, p, "Product")
    /\ \A sup \in Keys(suppliers) :
          /\ (OrdersOfSupplier(Self, sup) = {} /\ ProductsOfSupplier(Self, sup) = {})
                => Removed(Self, sup, "Supplier")
          /\ ProductsOfSupplier(Self, sup) # {}
                => remove_object(Self, sup, "Supplier") = Raise(Self, InvalidIdException)

\* C7 witness: orders were placed, all of them have been removed, and the
\* customer they were for has just been removed
C7_Witness ==
    /\ placed >= 1
    /\ orders = <<>>
    /\ last.op = "remove" /\ last.kind = "Customer" /\ last.res = None
    /\ last.id \in Cids
    /\ last.id \notin Keys(customers)

\* C8: the supplier_id of every stored product is a registered supplier;
\* add_or_update_product rejects a product of an unregistered supplier and
\* remove_object refuses to remove a supplier that a product references.
C8_ProductSupplierRegistered ==
    /\ \A p \in Values(products) :
          /\ p.supplier_id \in Keys(suppliers)
          /\ remove_object(Self, p.supplier_id, "Supplier") = Raise(Self, InvalidIdException)
    /\ \A a \in ValidProducts :
          a.supplier_id \notin Keys(suppliers)
          => add_or_update_product(Self, a) = Raise(Self, InvalidIdException)

\* C8 witness: the removal of a supplier that a stored product references has
\* just been refused, no order being stored
C8_Witness ==
    /\ last.op = "remove" /\ last.kind = "Supplier" /\ last.res = InvalidIdException
    /\ ProductsOfSupplier(Self, last.id) # {}
    /\ orders = <<>>

\* C9: for a product id in the store, add_or_update_product with another
\* supplier_id raises InvalidIdException and changes nothing, and with the
\* same supplier_id replaces exactly name, price and quantity; no step changes
\* the supplier_id of a product that is stored before and after it.
C9_SupplierIdImmutable ==
    /\ [](\A a \in ValidProducts :
            a.id \in Keys(products) =>
               LET existing == Get(products, a.id)
                   r == add_or_update_product(Self, a)
               IN  IF a.supplier_id # existing.supplier_id
                   THEN r = Raise(Self, InvalidIdException)
                   ELSE /\ r.res = None
                        /\ r.sys = [Self EXCEPT !.products =
                              [i \in DOMAIN products |->
                                 IF products[i].id = a.id
                                 THEN [id |-> existing.id, name |-> a.name,
                                       price |-> a.price,
                                       supplier_id |-> existing.supplier_id,
                                       quantity |-> a.quantity]
                                 ELSE products[i]]])
    /\ [][\A p \in Keys(products) \cap Keys(products') :
             Get(products', p).supplier_id = Get(products, p).supplier_id]_vars

\* C9 witness: a product that an order of price 1 was placed for has since
\* been updated to another name and price by its own supplier
C9_Witness ==
    /\ last.op = "add" /\ last.res = None
    /\ \E o \in Values(orders) :
          /\ o.quantity = 1 /\ o.total_price = Fin(1)
          /\ o.product_id = last.id
          /\ Get(products, o.product_id).price = Inf
          /\ Get(products, o.product_id).name = <<"B">>

\* C10: a store operation that raises InvalidIdException or
\* InvalidPriceException leaves customers, suppliers, products, orders and
\* the next order id as they were.
Failed(r) == r.res \in {InvalidIdException, InvalidPriceException}

C10_FailedCallChangesNothing ==
    /\ \A a \in CustomerArgs \cup SupplierArgs, is_customer \in BOOLEAN :
          LET r == register_entity(Self, a, is_customer)
          IN  Failed(r) => r.sys = Self
    /\ \A a \in ValidProducts :
          LET r == add_or_update_product(Self, a)
          IN  Failed(r) => r.sys = Self
    /\ \A a \in OrderArgs :
          LET r == place_order(Self, a.customer_id, a.product_id, a.quantity)
          IN  Failed(r) => r.sys = Self
    /\ \A _id \in RemoveIds, class_type \in ClassTypes :
          LET r == remove_object(Self, _id, class_type)
          IN  Failed(r) => r.sys = Self
    /\ \A query \in QueryInputs, max_price \in MaxPriceInputs :
          LET r == search_products(Self, query, max_price)
          IN  r.sys = Self

\* C10 witness: an order of quantity 0 for a product of price inf has just
\* raised InvalidPriceException
C10_Witness ==
    /\ last.op = "order" /\ last.res = InvalidPriceException
    /\ last.id \in Keys(products)
    /\ Get(products, last.id).price = Inf

\* C17: every stored product has a quantity >= 0, every stored order a
\* quantity >= 0 and a total_price >= 0, and no place_order call leaves a
\* product with a quantity below zero.
C17_QuantitiesNonNegative ==
    /\ \A p \in Values(products) : p.quantity >= 0
    /\ \A o \in Values(orders) : o.quantity >= 0 /\ FloatGeZero(o.total_price)
    /\ \A a \in ValidOrders :
          LET r == place_order(Self, a.customer_id, a.product_id, a.quantity)
          IN  \A p \in Values(r.sys.products) : p.quantity >= 0

\* C17 witness: an accepted order has just taken the whole stock of its
\* product
C17_Witness ==
    /\ last.op = "order" /\ last.res = SUCCESS_ORDER_MSG
    /\ last.id \in Keys(products)
    /\ Get(products, last.id).quantity = 0
    /\ \E o \in Values(orders) : o.product_id = last.id /\ o.quantity = MaxQty

\* C18: the customer_id of every stored order is a registered customer and
\* its product_id a stored product, whose supplier is registered; so
\* remove_object on the order does not raise for a missing product, and
\* export_orders passes over no order.
C18_OrdersReferenceStored ==
    \A o \in Values(orders) :
        /\ o.customer_id \in Keys(customers)
        /\ o.product_id \in Keys(products)
        /\ Get(products, o.product_id).supplier_id \in Keys(suppliers)
        /\ remove_object(Self, o.id, "Order").res = None
        /\ \E item \in Values(export_orders(Self)) :
              \E k \in DOMAIN item.list : item.list[k] = str_Order(o)

\* C18 witness: the removal of a stored product that an order references
\* has just been refused
C18_Witness ==
    /\ last.op = "remove" /\ last.kind = "Product" /\ last.res = InvalidIdException
    /\ last.id \in Keys(products)
    /\ OrdersOfProduct(Self, last.id) # {}

\* C19: the next order id is above the id of every stored order and of
\* every order ever created (the ids 1..placed), and a successful
\* place_order stores its order under an id above all of them.
C19_OrderIdsNeverReused ==
    /\ \A o \in Values(orders) : o.id < next_order_id
    /\ \A k \in 1..placed : k < next_order_id
    /\ \A a \in ValidOrders :
          LET r == place_order(Self, a.customer_id, a.product_id, a.quantity)
          IN  r.res = SUCCESS_ORDER_MSG =>
                 LET o == r.sys.orders[Len(r.sys.orders)]
                 IN  /\ o.id \notin 1..placed
                     /\ o.id \notin Keys(orders)
                     /\ o.id < r.sys.next_order_id

\* C19 witness: order 1 was created and removed, and the order placed after
\* that has just been stored under id 2
C19_Witness ==
    /\ placed = 2
    /\ last.op = "order" /\ last.res = SUCCESS_ORDER_MSG
    /\ Keys(orders) = {2}

(* ---------------------- claims on loading a snapshot ------------------ *)
\* what a line of a snapshot is: blank, a record (it evaluates to a
\* Customer, Supplier or Product), rejected (its constructor raises
\* InvalidIdException or InvalidPriceException), unparsed (it raises
\* something else) or other (it evaluates to something else)
Outcome(line) ==
    IF line.head = "" THEN "blank"
    ELSE LET e == eval(line)
         IN  IF e.exc \in {InvalidIdException, InvalidPriceException} THEN "rejected"
             ELSE IF e.exc # None THEN "unparsed"
             ELSE IF e.cls \in {"Customer", "Supplier", "Product"} THEN "record"
             ELSE "other"

\* the lines of a file whose outcome is in kinds, in file order
LinesOf(file, kinds) == SelectSeq(file, LAMBDA l : Outcome(l) \in kinds)

\* the records of class cls that the lines of a file evaluate to, in file
\* order
Objs(file, cls) ==
    LET ls == SelectSeq(file, LAMBDA l : Outcome(l) = "record" /\ eval(l).cls = cls)
    IN  [i \in DOMAIN ls |-> eval(ls[i]).obj]

C12_CustomersSuppliersProducts ==
    LET r == load_system_from_file(snapshot)
        cs == Objs(snapshot, "Customer")
        sups == Objs(snapshot, "Supplier")
        ps == Objs(snapshot, "Product")
        First(id) == CHOOSE i \in DOMAIN ps :
                        ps[i].id = id /\ \A j \in 1..(i - 1) : ps[j].id # id
        Latest(id) == CHOOSE i \in DOMAIN ps :
                        ps[i].id = id /\ \A j \in (i + 1)..Len(ps) : ps[j].id # id
    IN  LinesOf(snapshot, {"rejected"}) = <<>> =>
           /\ r.res = None <=>
                 /\ \A i, j \in DOMAIN cs : cs[i].id = cs[j].id => i = j
                 /\ \A i, j \in DOMAIN sups : sups[i].id = sups[j].id => i = j
                 /\ \A i \in DOMAIN ps : \E j \in DOMAIN sups : sups[j].id = ps[i].supplier_id
                 /\ \A i, j \in DOMAIN ps :
                       ps[i].id = ps[j].id => ps[i].supplier_id = ps[j].supplier_id
           /\ r.res = None =>
                 /\ r.sys.customers = cs
                 /\ r.sys.suppliers = sups
                 /\ Keys(r.sys.products) = {ps[i].id : i \in DOMAIN ps}
                 /\ \A i, j \in DOMAIN r.sys.products :
                       i < j => First(r.sys.products[i].id) < First(r.sys.products[j].id)
                 /\ \A p \in Values(r.sys.products) : p = ps[Latest(p.id)]
                 /\ r.sys.orders = <<>>
                 /\ last.op = "load" => Self = r.sys

\* C12 witness: the file whose lines are a product, its supplier and the
\* same product under another name, price and quantity has been loaded
C12_Witness ==
    /\ last.op = "load" /\ last.res = None
    /\ snapshot = <<ProductLine(0, <<"a">>, FloatTok(1), 0, 1),
                    SupplierLine(0, <<"H">>),
                    ProductLine(0, <<"B">>, FloatTok(2), 0, 2)>>
    /\ products = <<[id |-> 0, name |-> <<"B">>, price |-> Fin(2),
                     supplier_id |-> 0, quantity |-> 2]>>
    /\ Keys(suppliers) = {0}

(* ----------------------- claims on replaying a log -------------------- *)
\* a line that is passed over: blank, or starting with #
PassedOver(parts) == parts = <<>> \/ parts[1] \in {"#", "#note"}

\* a line that is malformed: an unknown command or a wrong number of tokens
Malformed(parts) ==
    /\ ~PassedOver(parts)
    /\ LET cmd == str_lower(parts[1])
       IN  \/ cmd \notin {"register", "add", "update", "order", "remove", "search"}
           \/ cmd \in {"register", "add", "update"} /\ Len(parts) # 6
           \/ cmd = "order" /\ Len(parts) \notin {3, 4}
           \/ cmd = "remove" /\ Len(parts) # 3
           \/ cmd = "search" /\ Len(parts) \notin {2, 3}

\* C13: a malformed line raises and so does a line whose store operation
\* raises; the step that executes a line that raises is the last step of
\* the run, the store stays as that line found it, and neither the orders
\* nor the snapshot are written; a line is passed over without a call and
\* without effect exactly when it is blank or starts with #.
C13_FirstErrorStopsRun ==
    /\ [](/\ output.error => output.orders = <<>> /\ output.system = <<>>
          /\ \A parts \in LogLines :
                LET r == _execute_log_line(Self, parts)
                IN  /\ Malformed(parts) => r.res = ValueError /\ r.sys = Self
                    /\ PassedOver(parts) <=> (r.cmd = "" /\ ~Raised(r.res))
                    /\ PassedOver(parts) => r.sys = Self)
    /\ [][/\ ~output.error
          /\ output'.error <=> Raised(last'.res)
          /\ output'.error => Self' = Self]_vars

\* C13 witness: after a customer was registered, a line of an unknown
\* command has stopped the run
C13_Witness ==
    /\ output.error
    /\ last.op = "frobnicate" /\ last.res = ValueError
    /\ Keys(customers) = {1}
    /\ output.orders = <<>>

(* --------------------------- claims on searching ---------------------- *)
\* C14: search_products with a query and no max_price or a valid one
\* returns, without a change of the store, the stored products with a
\* quantity above 0 whose lower-cased name contains the lower-cased query
\* and whose price is at most max_price when one is given, each once, in
\* ascending order of price, products of equal price in the order they have
\* in the store.
C14_SearchResult ==
    \A query \in SearchQueries, max_price \in SearchMaxPrices :
        (max_price = NoPrice \/ FloatGeZero(max_price)) =>
           LET r == search_products(Self, query, max_price)
               L == r.list
               Pos(id) == CHOOSE i \in DOMAIN products : products[i].id = id
               Wanted == {p \in Values(products) :
                             /\ p.quantity > 0
                             /\ Contains(lower(p.name), lower(query))
                             /\ (max_price # NoPrice => FloatLe(p.price, max_price))}
           IN  /\ r.res = None
               /\ r.sys = Self
               /\ {L[i] : i \in DOMAIN L} = Wanted
               /\ Len(L) = Cardinality(Wanted)
               /\ \A i, j \in DOMAIN L :
                     i < j => /\ FloatLe(L[i].price, L[j].price)
                              /\ L[i].price = L[j].price => Pos(L[i].id) < Pos(L[j].id)

\* C14 witness: a search has just returned two of three stored products,
\* two products in stock having the same price and one being out of stock
C14_Witness ==
    /\ last.op = "search" /\ last.res = None /\ last.ret = 2
    /\ Len(products) = 3
    /\ \E p \in Values(products) : p.quantity = 0
    /\ \E p, q \in Values(products) :
          p.id # q.id /\ p.price = q.price /\ p.quantity > 0 /\ q.quantity > 0

(* ---------------------- claims on exporting the orders ---------------- *)
\* the places [i, k] of a text in the lists of a mapping
Places(grouped, text) ==
    {ik \in (DOMAIN grouped) \X (1..Len(orders)) :
        ik[2] \in DOMAIN grouped[ik[1]].list /\ grouped[ik[1]].list[ik[2]] = text}

\* C15: in the mapping that export_orders writes, the keys are distinct and
\* no list is empty; every stored order whose product and that product's
\* supplier are stored is in exactly one place, in the list of the city of
\* its product's supplier; an order whose product or supplier is not
\* stored is in no place; every list holds stored orders only, in the
\* order the orders have in the store.
C15_OrdersByCity ==
    LET g == export_orders(Self)
        Resolves(o) ==
            /\ o.product_id \in Keys(products)
            /\ Get(products, o.product_id).supplier_id \in Keys(suppliers)
        CityOf(o) == Get(suppliers, Get(products, o.product_id).supplier_id).city
        Index(text) == CHOOSE n \in DOMAIN orders : str_Order(orders[n]) = text
    IN  /\ \A i, j \in DOMAIN g : g[i].city = g[j].city => i = j
        /\ \A i \in DOMAIN g : g[i].list # <<>>
        /\ \A o \in Values(orders) :
              IF Resolves(o)
              THEN /\ Cardinality(Places(g, str_Order(o))) = 1
                   /\ \A ik \in Places(g, str_Order(o)) : g[ik[1]].city = CityOf(o)
              ELSE Places(g, str_Order(o)) = {}
        /\ \A i \in DOMAIN g :
              /\ \A k \in DOMAIN g[i].list :
                    \E o \in Values(orders) : str_Order(o) = g[i].list[k]
              /\ \A k, l \in DOMAIN g[i].list :
                    k < l => Index(g[i].list[k]) < Index(g[i].list[l])
        /\ output.orders # <<>> => output.orders[1] = g

\* C15 witness: the orders written are two orders of city H with an order
\* of city T placed between them
C15_Witness ==
    /\ output.orders # <<>>
    /\ Len(output.orders[1]) = 2
    /\ output.orders[1][1].city = <<"H">>
    /\ Len(output.orders[1][1].list) = 2
    /\ output.orders[1][2].city = <<"T">>
    /\ Len(orders) = 3
    /\ orders[2].product_id = 1

(* ---------------------- claims on the snapshot round trip ------------- *)
\* C16 (as claimed): loading the snapshot that has been written gives a
\* store with the customers, the suppliers and the products of the store
\* it was written from, in the same order, with no orders and the next
\* order id 1.
C16_RoundTrip ==
    output.system # <<>> =>
       load_system_from_file(output.system[1])
          = Return([customers |-> customers, suppliers |-> suppliers,
                    products |-> products, orders |-> <<>>, next_order_id |-> ONE],
                   None)

(* ------------------------- claims on the stock ------------------------ *)
\* the sum of the quantities of the orders of product p in a dict of orders
RECURSIVE OrderedQuantity(_, _)
OrderedQuantity(os, p) ==
    IF os = <<>> THEN 0
    ELSE (IF Head(os).product_id = p THEN Head(os).quantity ELSE 0)
         + OrderedQuantity(Tail(os), p)

\* the quantity of product p in store s plus the quantities of the stored
\* orders of p
StockAndOrders(s, p) == Get(s.products, p).quantity + OrderedQuantity(s.orders, p)

\* C20 (as claimed): a place_order or remove_object call leaves, for every
\* product stored before and after it, the sum of the product's quantity
\* and the quantities of the stored orders of that product as it was.
C20_StockConserved ==
    [][last'.op \in {"order", "remove"} =>
          \A p \in Keys(products) \cap Keys(products') :
             StockAndOrders(Self', p) = StockAndOrders(Self, p)]_vars

====
